---- MODULE Spec2Model ----
(***************************************************************************)
(* The syncldap management command (Command.handle, sync_ldap_groups,      *)
(* sync_ldap_users) as a state machine.                                    *)
(*                                                                         *)
(* Text is a sequence of code points, raw directory values are sequences   *)
(* of bytes.  The local store (Django's Group and user model) is a set of  *)
(* rows keyed by pk.  The module is Python 2 code (line 31 concatenates    *)
(* dict.keys() with a list, line 48 calls .decode on a str), so str and    *)
(* unicode follow Python 2.                                                 *)
(***************************************************************************)
EXTENDS Integers, Sequences, FiniteSets, TLC

VARIABLES
    settings,        \* self.settings: filters and callback lists of this run
    pc,              \* position of the run inside handle and the two syncs
    exc,             \* the exception propagating out of handle ("" for none)
    bound,           \* self.ldap is still bound to the directory
    unbinds,         \* number of calls of self.ldap.unbind()
    Groups,          \* rows of the Group model
    Users,           \* rows of settings.model
    ldap_groups,     \* result of the group search
    ldap_users,      \* result of the user search
    i,               \* index of the entry the running for-loop is at
    user,            \* the user instance the loop body holds
    created,         \* get_or_create's flag for that instance
    updated,         \* the drift flag for that instance
    cbi,             \* index of the next callback of the running chain
    ldap_usernames,  \* the confirmed set
    local_only,      \* usernames of django_usernames - ldap_usernames still to visit
    group_insert,    \* what the Group table answers to an INSERT in this deployment
    run,             \* which call of sync_ldap_groups is running (SpecTwice)
    log              \* the calls made since the last directory search

vars == <<settings, pc, exc, bound, unbinds, Groups, Users, ldap_groups,
          ldap_users, i, user, created, updated, cbi, ldap_usernames,
          local_only, group_insert, run, log>>

-----------------------------------------------------------------------------
(* Bounds of the model *)

MaxGroups == 2
MaxUsers == 2

-----------------------------------------------------------------------------
(* Text *)

S_a == <<97>>
S_A == <<65>>
S_b == <<98>>
S_c == <<99>>
S_N == <<78>>
S_x == <<120>>
S_z == <<122>>
S_empty == <<>>
B_bad == <<255>>

\* the characters of the field names the settings use
FieldChars(field) ==
    CASE field = "name" -> <<110, 97, 109, 101>>
      [] field = "username" -> <<117, 115, 101, 114, 110, 97, 109, 101>>
      [] field = "email" -> <<101, 109, 97, 105, 108>>

\* unicode.lower() on the Latin-1 range
Lower(s) ==
    [k \in DOMAIN s |->
        IF s[k] \in 65..90 \/ (s[k] \in 192..222 /\ s[k] # 215)
        THEN s[k] + 32 ELSE s[k]]

\* bytes.decode('utf-8') for one- and two-byte sequences:
\* [ok |-> FALSE] stands for UnicodeDecodeError
RECURSIVE Utf8Decode(_)
Utf8Decode(b) ==
    IF b = <<>> THEN [ok |-> TRUE, val |-> <<>>]
    ELSE IF b[1] < 128
    THEN LET r == Utf8Decode(Tail(b))
         IN  [ok |-> r.ok, val |-> <<b[1]>> \o r.val]
    ELSE IF b[1] \in 194..223 /\ Len(b) >= 2 /\ b[2] \in 128..191
    THEN LET r == Utf8Decode(Tail(Tail(b)))
         IN  [ok |-> r.ok, val |-> <<(b[1] - 192) * 64 + (b[2] - 128)>> \o r.val]
    ELSE [ok |-> FALSE, val |-> <<>>]

\* the __iexact lookup
IExact(s, t) == Lower(s) = Lower(t)

Range(f) == {f[k] : k \in DOMAIN f}

-----------------------------------------------------------------------------
(* Settings *)

GROUP_ATTRIBUTES == [cn |-> "name"]
GROUPNAME_FIELD == "name"
USER_ATTRIBUTES == [uid |-> "username", mail |-> "email"]
USERNAME_FIELD == "username"

\* what a configured callback does when called
UserCallbackLists ==
    { <<>>, <<"cb_noop", "cb_noop">>, <<"cb_mutate", "cb_noop">>,
      <<"cb_noop", "cb_raise">>, <<"cb_raise", "cb_noop">> }
RemovedCallbackLists ==
    { <<>>, <<"cb_noop", "cb_noop">>, <<"cb_raise", "cb_noop">> }

SettingsSet ==
    [GROUP_FILTER : BOOLEAN, USER_FILTER : BOOLEAN,
     USER_CALLBACKS : UserCallbackLists,
     REMOVED_USER_CALLBACKS : RemovedCallbackLists]

-----------------------------------------------------------------------------
(* Directory entries: (cname, ldap_attributes) with the cname left out *)

\* a referral: its second component is a list of URLs, not a dict
\* (mutant) the isinstance check left out
IsInstanceDictAlways(entry) == TRUE

\* isinstance(ldap_attributes, dict), lines 42 and 75
IsInstanceDict(entry) == entry.isdict

NonDict(cname) == [cname |-> cname, isdict |-> FALSE, attrs |-> [ref |-> <<S_x>>]]
Dict(cname, a) == [cname |-> cname, isdict |-> TRUE, attrs |-> a]

GroupEntries ==
    { NonDict(S_a), Dict(S_a, [cn |-> <<S_a>>]), Dict(S_A, [cn |-> <<S_A>>]) }

UserEntries ==
    { NonDict(S_c),
      Dict(S_a, [uid |-> <<S_a>>, mail |-> <<S_x>>]),
      Dict(S_A, [uid |-> <<S_A>>]),
      Dict(S_b, [uid |-> <<S_b>>, mail |-> <<S_x>>]),
      Dict(S_z, [uid |-> <<B_bad>>]) }

SeqsUpTo(S, n) == UNION {[1..m -> S] : m \in 0..n}

-----------------------------------------------------------------------------
(* The local store *)

PW_DEFAULT == ""          \* the password column as objects.create leaves it
PW_UNUSABLE == "!"        \* what set_unusable_password() sets
PW_HASH == "pbkdf2"       \* a usable credential

NoUser == [pk |-> 0, username |-> <<>>, email |-> <<>>, password |-> PW_DEFAULT]

InitialGroups ==
    { {},
      {[pk |-> 1, name |-> S_N]},
      {[pk |-> 1, name |-> S_a]} }

InitialUsers ==
    { {},
      {[pk |-> 1, username |-> S_a, email |-> S_x, password |-> PW_HASH]},
      {[pk |-> 1, username |-> S_a, email |-> S_x, password |-> PW_HASH],
       [pk |-> 2, username |-> S_c, email |-> S_empty, password |-> PW_HASH]} }

NextPk(rows) ==
    IF rows = {} THEN 1
    ELSE 1 + CHOOSE m \in {r.pk : r \in rows} : \A r \in rows : r.pk <= m

\* (mutant) a save that drops the row
SavedDeleting(rows, inst) == {r \in rows : r.pk # inst.pk}

\* Model.save(): the row of that pk becomes the instance
Saved(rows, inst) == {r \in rows : r.pk # inst.pk} \cup {inst}

-----------------------------------------------------------------------------
(* Observable calls *)

Ev(op, idx, cb, pk, key, res, cr, up) ==
    [op |-> op, idx |-> idx, cb |-> cb, pk |-> pk, key |-> key, res |-> res,
     created |-> cr, updated |-> up]

\* (mutant) the exception swallowed where it is raised
AbortSwallowed(e) == pc' = pc /\ exc' = exc

\* an exception nothing in handle catches: the run ends without reaching line 35
Abort(e) == pc' = "aborted" /\ exc' = e

\* the except clauses of lines 60, 93 and 117
CaughtAtGroupCreate == {"IntegrityError", "DataError"}
CaughtAtUserCreate == {"IntegrityError", "DataError"}
\* (mutant) the save of line 116 outside any try
CaughtAtSaveNothing == {}
CaughtAtSave == {"IntegrityError"}

\* what an INSERT or an UPDATE can answer
SaveAnswers == {"ok", "IntegrityError", "DataError"}
\* what get_or_create's INSERT can answer
InsertAnswers == {"created", "IntegrityError", "DataError"}

\* (mutant) create without looking up first
GetOrCreateNoLookup(found, answers) == answers

\* get_or_create: one row matches, none does (create, which answers one of
\* `answers`), or several do
GetOrCreateOutcomes(found, answers) ==
    IF Cardinality(found) > 1 THEN {"MultipleObjectsReturned"}
    ELSE IF Cardinality(found) = 1 THEN {"found"}
    ELSE answers

-----------------------------------------------------------------------------
(* sync_ldap_groups *)

\* lines 46-50: the value is read from settings.GROUP_ATTRIBUTES[ldap_name],
\* the field name, whose first character decodes to itself; no KeyError
GroupDefaults(ldap_attributes) ==
    [field \in Range(GROUP_ATTRIBUTES) |->
        LET ldap_name == CHOOSE n \in DOMAIN GROUP_ATTRIBUTES :
                            GROUP_ATTRIBUTES[n] = field
        IN  Utf8Decode(<<FieldChars(GROUP_ATTRIBUTES[ldap_name])[1]>>).val]

GroupLookup(groupname) ==
    {g \in Groups : IExact(g[GROUPNAME_FIELD], groupname)}

NewGroup(defaults) ==
    [pk |-> NextPk(Groups), name |-> defaults["name"]]

\* the decoded first value of the directory attribute mapped to `field`
DirectoryValue(table, ldap_attributes, field) ==
    LET ldap_name == CHOOSE n \in DOMAIN table : table[n] = field
    IN  IF ldap_name \in DOMAIN ldap_attributes
        THEN Utf8Decode(ldap_attributes[ldap_name][1]).val
        ELSE S_empty

-----------------------------------------------------------------------------
Init ==
    /\ settings \in SettingsSet
    /\ pc = "handle"
    /\ exc = ""
    /\ bound = TRUE
    /\ unbinds = 0
    /\ Groups \in InitialGroups
    /\ Users \in InitialUsers
    /\ ldap_groups = <<>>
    /\ ldap_users = <<>>
    /\ i = 0
    /\ user = NoUser
    /\ created = FALSE
    /\ updated = FALSE
    /\ cbi = 0
    /\ ldap_usernames = {}
    /\ local_only = {}
    /\ group_insert \in (IF settings.GROUP_FILTER THEN InsertAnswers
                         ELSE {"created"})   \* never asked without a filter
    /\ run = 1
    /\ log = <<>>

-----------------------------------------------------------------------------
(* handle, lines 26-28 *)

HandleGroups ==
    /\ pc = "handle"
    /\ \/ /\ settings.GROUP_FILTER
          /\ \E result \in SeqsUpTo(GroupEntries, MaxGroups) :
                ldap_groups' = result
          /\ i' = 1
          /\ pc' = "sync_groups"
          /\ log' = <<Ev("search_groups", 0, 0, 0, S_empty, "", FALSE, FALSE)>>
       \/ /\ ~settings.GROUP_FILTER
          /\ pc' = "handle_users"
          /\ UNCHANGED <<ldap_groups, i, log>>
    /\ UNCHANGED <<settings, group_insert, run, exc, bound, unbinds, Groups,
                   Users, ldap_users, user, created, updated, cbi,
                   ldap_usernames, local_only>>

\* lines 42-44
GroupSkip ==
    /\ pc = "sync_groups"
    /\ i <= Len(ldap_groups)
    /\ ~IsInstanceDict(ldap_groups[i])
    /\ i' = i + 1
    /\ UNCHANGED <<settings, group_insert, run, pc, exc, bound, unbinds,
                   Groups, Users, ldap_groups, ldap_users, user, created,
                   updated, cbi, ldap_usernames, local_only, log>>

\* (mutant) update_or_create: a group that is found takes the mapped fields
GroupsAfterUpdating(res, found, new) ==
    IF res = "created" THEN Groups \cup {new}
    ELSE IF res = "found"
    THEN (Groups \ found) \cup {[g EXCEPT !.name = new.name] : g \in found}
    ELSE Groups

\* line 59: the Group rows after get_or_create answered res; nothing in
\* lines 60-64 writes to a group
GroupsAfter(res, found, new) ==
    IF res = "created" THEN Groups \cup {new} ELSE Groups

\* lines 46-64
GroupGetOrCreate ==
    /\ pc = "sync_groups"
    /\ i <= Len(ldap_groups)
    /\ IsInstanceDict(ldap_groups[i])
    /\ LET defaults == GroupDefaults(ldap_groups[i].attrs)
           groupname == defaults[GROUPNAME_FIELD]
           found == GroupLookup(groupname)
           new == NewGroup(defaults)
       IN  \E res \in GetOrCreateOutcomes(found, {group_insert}) :
              /\ Groups' = GroupsAfter(res, found, new)
              /\ log' = Append(log,
                    Ev("group_get_or_create", i, 0,
                       IF res = "created" THEN new.pk
                       ELSE IF res = "found" THEN (CHOOSE g \in found : TRUE).pk
                       ELSE 0,
                       groupname, res, res = "created", FALSE))
              /\ IF res \in {"created", "found"} \cup CaughtAtGroupCreate
                 THEN i' = i + 1 /\ UNCHANGED <<pc, exc>>
                 ELSE Abort(res) /\ i' = i
    /\ UNCHANGED <<settings, group_insert, run, bound, unbinds, Users,
                   ldap_groups, ldap_users, user, created, updated, cbi,
                   ldap_usernames, local_only>>

\* line 66; handle does not read ldap_groups again, and nothing after
\* sync_ldap_groups inserts into the Group table
GroupsReturn ==
    /\ pc = "sync_groups"
    /\ i > Len(ldap_groups)
    /\ pc' = "handle_users"
    /\ i' = 0
    /\ ldap_groups' = <<>>
    /\ group_insert' = "created"
    /\ UNCHANGED <<settings, run, exc, bound, unbinds, Groups,
                   Users, ldap_users, user, created, updated, cbi,
                   ldap_usernames, local_only, log>>

-----------------------------------------------------------------------------
(* sync_ldap_users *)

\* lines 79-83; a KeyError leaves the field empty
UserDefaults(ldap_attributes) ==
    [field \in Range(USER_ATTRIBUTES) |->
        DirectoryValue(USER_ATTRIBUTES, ldap_attributes, field)]

\* line 81 raises UnicodeDecodeError, which line 82 does not catch
DecodeFails(table, ldap_attributes) ==
    \E n \in DOMAIN table \cap DOMAIN ldap_attributes :
        ~Utf8Decode(ldap_attributes[n][1]).ok

\* line 85
Username(ldap_attributes) == Lower(UserDefaults(ldap_attributes)[USERNAME_FIELD])

\* line 87: the __iexact lookup of get_or_create
UserLookup(username) ==
    {u \in Users : IExact(u[USERNAME_FIELD], username)}

\* line 92 on a miss: create(**defaults); the lookup key holds "__" and is
\* not a field of the new row
NewUser(defaults) ==
    [pk |-> NextPk(Users), username |-> defaults["username"],
     email |-> defaults["email"], password |-> PW_DEFAULT]

\* line 99
SetUnusablePassword(inst) == [inst EXCEPT !.password = PW_UNUSABLE]

\* lines 101-105
Drifted(inst, defaults) == \E name \in DOMAIN defaults : inst[name] # defaults[name]

\* (mutant) the setattr of line 104 left out
ApplyDefaultsForgotten(inst, defaults) == inst

ApplyDefaults(inst, defaults) ==
    [name \in DOMAIN inst |->
        IF name \in DOMAIN defaults THEN defaults[name] ELSE inst[name]]

\* (mutant) line 121 left out
ConfirmedForgotten(set, username) == set

\* (mutant) line 121 without the test of line 120
ConfirmedUngated(set, username) == set \cup {username}

\* lines 120-121
Confirmed(set, username) ==
    IF settings.REMOVED_USER_CALLBACKS # <<>> THEN set \cup {username} ELSE set

\* line 30-33
HandleUsers ==
    /\ pc = "handle_users"
    /\ \/ /\ settings.USER_FILTER
          /\ \E result \in SeqsUpTo(UserEntries, MaxUsers) :
                ldap_users' = result
          /\ i' = 1
          /\ ldap_usernames' = {}
          /\ pc' = "sync_users"
          /\ log' = <<Ev("search_users", 0, 0, 0, S_empty, "", FALSE, FALSE)>>
       \/ /\ ~settings.USER_FILTER
          /\ pc' = "handle_unbind"
          /\ UNCHANGED <<ldap_users, i, ldap_usernames, log>>
    /\ UNCHANGED <<settings, group_insert, run, exc, bound, unbinds, Groups,
                   Users, ldap_groups, user, created, updated, cbi, local_only>>

\* lines 75-77
UserSkip ==
    /\ pc = "sync_users"
    /\ i <= Len(ldap_users)
    /\ ~IsInstanceDict(ldap_users[i])
    /\ i' = i + 1
    /\ UNCHANGED <<settings, group_insert, run, pc, exc, bound, unbinds,
                   Groups, Users, ldap_groups, ldap_users, user, created,
                   updated, cbi, ldap_usernames, local_only, log>>

\* line 81 raising UnicodeDecodeError
UserDecodeError ==
    /\ pc = "sync_users"
    /\ i <= Len(ldap_users)
    /\ IsInstanceDict(ldap_users[i])
    /\ DecodeFails(USER_ATTRIBUTES, ldap_users[i].attrs)
    /\ Abort("UnicodeDecodeError")
    /\ UNCHANGED <<settings, group_insert, run, bound, unbinds, Groups, Users,
                   ldap_groups, ldap_users, i, user, created, updated, cbi,
                   ldap_usernames, local_only, log>>

\* lines 79-107
UserGetOrCreate ==
    /\ pc = "sync_users"
    /\ i <= Len(ldap_users)
    /\ IsInstanceDict(ldap_users[i])
    /\ ~DecodeFails(USER_ATTRIBUTES, ldap_users[i].attrs)
    /\ LET defaults == UserDefaults(ldap_users[i].attrs)
           username == Username(ldap_users[i].attrs)
           found == UserLookup(username)
           new == NewUser(defaults)
           old == CHOOSE u \in found : TRUE
       IN  \E res \in GetOrCreateOutcomes(found, InsertAnswers) :
              /\ Users' = IF res = "created" THEN Users \cup {new} ELSE Users
              /\ user' = CASE res = "created" -> SetUnusablePassword(new)
                           [] res = "found" -> ApplyDefaults(old, defaults)
                           [] OTHER -> user
              /\ created' = (res = "created")
              /\ updated' = (res = "found" /\ Drifted(old, defaults))
              /\ log' = Append(log,
                    Ev("get_or_create", i, 0,
                       IF res = "created" THEN new.pk
                       ELSE IF res = "found" THEN old.pk ELSE 0,
                       username, res, res = "created",
                       res = "found" /\ Drifted(old, defaults)))
              /\ CASE res \in {"created", "found"} ->
                        pc' = "user_callbacks" /\ cbi' = 1 /\ UNCHANGED <<exc, i>>
                   [] res \in CaughtAtUserCreate ->
                        i' = i + 1 /\ UNCHANGED <<pc, exc, cbi>>
                   [] OTHER -> Abort(res) /\ UNCHANGED <<i, cbi>>
    /\ UNCHANGED <<settings, group_insert, run, bound, unbinds, Groups,
                   ldap_groups, ldap_users, ldap_usernames, local_only>>

\* (mutant) the for of line 109 left after its first callback
ChainDoneAfterFirst(n, chain) == n > 1 \/ n > Len(chain)

\* line 109: the for-loop over the chain has no callback left
ChainDone(n, chain) == n > Len(chain)

\* lines 109-111: one callback of USER_CALLBACKS
UserCallback ==
    /\ pc = "user_callbacks"
    /\ ~ChainDone(cbi, settings.USER_CALLBACKS)
    /\ LET kind == settings.USER_CALLBACKS[cbi]
       IN  /\ log' = Append(log,
                  Ev("user_callback", i, cbi, user.pk, user.username, kind,
                     created, updated))
           /\ user' = IF kind = "cb_mutate" THEN [user EXCEPT !.email = S_z]
                      ELSE user
           /\ IF kind = "cb_raise"
              THEN Abort("CallbackError") /\ cbi' = cbi
              ELSE cbi' = cbi + 1 /\ UNCHANGED <<pc, exc>>
    /\ UNCHANGED <<settings, group_insert, run, bound, unbinds, Groups, Users,
                   ldap_groups, ldap_users, i, created, updated,
                   ldap_usernames, local_only>>

\* lines 115-121
UserSave ==
    /\ pc = "user_callbacks"
    /\ ChainDone(cbi, settings.USER_CALLBACKS)
    /\ \E res \in SaveAnswers :
          /\ Users' = IF res = "ok" THEN Saved(Users, user) ELSE Users
          /\ log' = Append(log,
                Ev("save", i, 0, user.pk, user.username, res, created, updated))
          /\ IF res \notin {"ok"} \cup CaughtAtSave
             THEN Abort(res) /\ UNCHANGED <<i, ldap_usernames>>
             ELSE /\ ldap_usernames' =
                        Confirmed(ldap_usernames, Username(ldap_users[i].attrs))
                  /\ i' = i + 1
                  /\ pc' = "sync_users"
                  /\ exc' = exc
    /\ UNCHANGED <<settings, group_insert, run, bound, unbinds, Groups,
                   ldap_groups, ldap_users, user, created, updated, cbi,
                   local_only>>

\* lines 123-125, or line 132 when no removal callback is configured
UsersSwept ==
    /\ pc = "sync_users"
    /\ i > Len(ldap_users)
    /\ \/ /\ settings.REMOVED_USER_CALLBACKS # <<>>
          /\ local_only' = {u[USERNAME_FIELD] : u \in Users} \ ldap_usernames
          /\ log' = Append(log,
                Ev("values_list", 0, 0, 0, S_empty, "", FALSE, FALSE))
          /\ pc' = "removal"
       \/ /\ settings.REMOVED_USER_CALLBACKS = <<>>
          /\ pc' = "handle_unbind"
          /\ UNCHANGED <<local_only, log>>
    /\ UNCHANGED <<settings, group_insert, run, exc, bound, unbinds, Groups,
                   Users, ldap_groups, ldap_users, i, user, created, updated,
                   cbi, ldap_usernames>>

\* lines 125-126: the set is iterated in no particular order
RemovalGet ==
    /\ pc = "removal"
    /\ \E username \in local_only :
          /\ user' = CHOOSE u \in Users : u[USERNAME_FIELD] = username
          /\ local_only' = local_only \ {username}
          /\ log' = Append(log,
                Ev("get", 0, 0, (CHOOSE u \in Users : u[USERNAME_FIELD] = username).pk,
                   username, "", FALSE, FALSE))
    /\ cbi' = 1
    /\ pc' = "removed_callbacks"
    /\ UNCHANGED <<settings, group_insert, run, exc, bound, unbinds, Groups,
                   Users, ldap_groups, ldap_users, i, created, updated,
                   ldap_usernames>>

\* lines 127-130: one callback of REMOVED_USER_CALLBACKS
RemovedCallback ==
    /\ pc = "removed_callbacks"
    /\ cbi <= Len(settings.REMOVED_USER_CALLBACKS)
    /\ LET kind == settings.REMOVED_USER_CALLBACKS[cbi]
       IN  /\ log' = Append(log,
                  Ev("removed_callback", 0, cbi, user.pk, user.username, kind,
                     FALSE, FALSE))
           /\ IF kind = "cb_raise"
              THEN Abort("CallbackError") /\ cbi' = cbi
              ELSE /\ cbi' = cbi + 1
                   /\ pc' = IF cbi = Len(settings.REMOVED_USER_CALLBACKS)
                            THEN "removal" ELSE pc
                   /\ exc' = exc
    /\ UNCHANGED <<settings, group_insert, run, bound, unbinds, Groups, Users,
                   ldap_groups, ldap_users, i, user, created, updated,
                   ldap_usernames, local_only>>

\* line 132
UsersReturn ==
    /\ pc = "removal"
    /\ local_only = {}
    /\ pc' = "handle_unbind"
    /\ UNCHANGED <<settings, group_insert, run, exc, bound, unbinds, Groups,
                   Users, ldap_groups, ldap_users, i, user, created, updated,
                   cbi, ldap_usernames, local_only, log>>

\* handle, line 35
Unbind ==
    /\ pc = "handle_unbind"
    /\ bound' = FALSE
    /\ unbinds' = unbinds + 1
    /\ pc' = "done"
    /\ UNCHANGED <<settings, group_insert, run, exc, Groups, Users,
                   ldap_groups, ldap_users, i, user, created, updated, cbi,
                   ldap_usernames, local_only, log>>

Next ==
    \/ HandleGroups
    \/ GroupSkip
    \/ GroupGetOrCreate
    \/ GroupsReturn
    \/ HandleUsers
    \/ UserSkip
    \/ UserDecodeError
    \/ UserGetOrCreate
    \/ UserCallback
    \/ UserSave
    \/ UsersSwept
    \/ RemovalGet
    \/ RemovedCallback
    \/ UsersReturn
    \/ Unbind

Spec == Init /\ [][Next]_vars

\* handle run with callbacks that return; the interpreter keeps executing
\* the single thread until handle returns or an exception leaves it
CallbacksReturn ==
    /\ "cb_raise" \notin Range(settings.USER_CALLBACKS)
    /\ "cb_raise" \notin Range(settings.REMOVED_USER_CALLBACKS)

InitLive == Init /\ CallbacksReturn

SpecLive == InitLive /\ [][Next]_vars /\ WF_vars(Next)

\* sync_ldap_groups called a second time on the result of the first call
GroupsAgain ==
    /\ pc = "sync_groups"
    /\ i > Len(ldap_groups)
    /\ run = 1
    /\ run' = 2
    /\ i' = 1
    /\ UNCHANGED <<settings, pc, exc, bound, unbinds, Groups, Users,
                   ldap_groups, ldap_users, user, created, updated, cbi,
                   ldap_usernames, local_only, group_insert, log>>

InitTwice ==
    /\ settings \in {s \in SettingsSet :
                        /\ s.GROUP_FILTER /\ ~s.USER_FILTER
                        /\ s.USER_CALLBACKS = <<>>
                        /\ s.REMOVED_USER_CALLBACKS = <<>>}
    /\ pc = "sync_groups"
    /\ exc = ""
    /\ bound = TRUE
    /\ unbinds = 0
    /\ Groups \in InitialGroups
    /\ Users = {}
    /\ ldap_groups \in SeqsUpTo(GroupEntries, MaxGroups)
    /\ ldap_users = <<>>
    /\ i = 1
    /\ user = NoUser
    /\ created = FALSE
    /\ updated = FALSE
    /\ cbi = 0
    /\ ldap_usernames = {}
    /\ local_only = {}
    /\ group_insert \in InsertAnswers
    /\ run = 1
    /\ log = <<>>

NextTwice ==
    \/ GroupSkip
    \/ GroupGetOrCreate
    \/ GroupsAgain

SpecTwice == InitTwice /\ [][NextTwice]_vars

-----------------------------------------------------------------------------
(* Reading the state and the log *)

Events(op) == {k \in DOMAIN log : log[k].op = op}
Row(pk) == CHOOSE u \in Users : u.pk = pk
Stored(pk) == \E u \in Users : u.pk = pk
Errors == {"IntegrityError", "DataError", "MultipleObjectsReturned"}
GroupsSwept == pc = "sync_groups" /\ i > Len(ldap_groups)

TypeOK ==
    /\ settings \in SettingsSet
    /\ pc \in {"handle", "sync_groups", "handle_users", "sync_users",
               "user_callbacks", "removal", "removed_callbacks",
               "handle_unbind", "done", "aborted"}
    /\ bound \in BOOLEAN
    /\ unbinds \in Nat
    /\ \A u \in Users : \A v \in Users : u.pk = v.pk => u = v

-----------------------------------------------------------------------------
(* C1: every run of handle that has ended, by returning or by an exception  *)
(* leaving it, has released the directory connection with exactly one      *)
(* unbind.                                                                 *)
C1_UnbindOnEveryExit ==
    pc \in {"done", "aborted"} => (~bound /\ unbinds = 1)

(* C2: once sync_ldap_groups has gone through its entries, every           *)
(* mapping-shaped entry whose get_or_create did not fail has a group in    *)
(* the store whose name equals, case-insensitively, the decoded first      *)
(* value of the entry's attribute mapped to the group name field.          *)
C2_GroupNamedAfterDirectoryValue ==
    GroupsSwept =>
        \A k \in 1..Len(ldap_groups) :
            (/\ ldap_groups[k].isdict
             /\ \E e \in Events("group_get_or_create") :
                    log[e].idx = k /\ log[e].res \notin Errors)
            => \E g \in Groups :
                  IExact(g[GROUPNAME_FIELD],
                         DirectoryValue(GROUP_ATTRIBUTES, ldap_groups[k].attrs,
                                        GROUPNAME_FIELD))

\* the last mapping-shaped entry of the result that maps to the username of entry k
LastSeen(k) ==
    CHOOSE m \in k..Len(ldap_users) :
        /\ ldap_users[m].isdict
        /\ Username(ldap_users[m].attrs) = Username(ldap_users[k].attrs)
        /\ \A n \in (m + 1)..Len(ldap_users) :
              ~(/\ ldap_users[n].isdict
                /\ Username(ldap_users[n].attrs) = Username(ldap_users[k].attrs))

NoStoreFailure == \A e \in DOMAIN log : log[e].res \notin Errors

(* C3: with no callback configured and no store failure, once               *)
(* sync_ldap_users has gone through its entries, every mapping-shaped       *)
(* entry has a stored user whose username is the lower-cased decoded name   *)
(* value, and every configured field of that user equals the value mapped   *)
(* from the last entry seen for that username.                              *)
C3_UsersStoredLowerCased ==
    (/\ pc = "sync_users" /\ i > Len(ldap_users)
     /\ settings.USER_CALLBACKS = <<>>
     /\ NoStoreFailure)
    => \A k \in 1..Len(ldap_users) :
          ldap_users[k].isdict =>
             \E u \in Users :
                /\ u[USERNAME_FIELD] = Username(ldap_users[k].attrs)
                /\ \A field \in Range(USER_ATTRIBUTES) :
                      u[field] = UserDefaults(ldap_users[LastSeen(k)].attrs)[field]

\* the sweep resolved an entry to this row and reached lines 120-121 with it
ConfirmedBySweep(pk) ==
    \E e \in Events("save") :
        log[e].pk = pk /\ log[e].res \in {"ok", "IntegrityError"}

RemovedCalls(pk, cb) ==
    Cardinality({e \in Events("removed_callback") :
                    log[e].pk = pk /\ log[e].cb = cb})

RemovalDone ==
    /\ pc \in {"handle_unbind", "done"}
    /\ settings.USER_FILTER
    /\ settings.REMOVED_USER_CALLBACKS # <<>>

(* C4: with removal callbacks configured, when removal detection has       *)
(* finished, each removal callback has been invoked exactly once with      *)
(* every stored user the sweep did not confirm and never with a user the   *)
(* sweep confirmed.                                                        *)
C4_RemovalOnlyForUnconfirmed ==
    RemovalDone =>
        \A u \in Users :
            \A cb \in 1..Len(settings.REMOVED_USER_CALLBACKS) :
                RemovedCalls(u.pk, cb) = IF ConfirmedBySweep(u.pk) THEN 0 ELSE 1

(* C5: at the end of a run, every user row that sync_ldap_users created    *)
(* in it holds an unusable credential, also when the save after the        *)
(* create failed (no modelled callback touches the credential).            *)
C5_CreatedUsersUnusable ==
    pc = "done" =>
        \A e \in Events("get_or_create") :
            log[e].res = "created" =>
                Stored(log[e].pk) /\ Row(log[e].pk).password = PW_UNUSABLE

MappedAt(k) == UserDefaults(ldap_users[k].attrs)
MappedFields == Range(USER_ATTRIBUTES)
LastEvent == log[Len(log)]

\* the loop body has just passed the save of an entry and goes on
JustSaved == Len(log) > 0 /\ LastEvent.op = "save" /\ pc = "sync_users"

\* the flag handed to the callbacks of an existing user says whether a mapped
\* field differed from the stored row
C6_UpdatedFlag ==
    (pc = "user_callbacks" /\ ~created) =>
        \A e \in Events("user_callback") :
            log[e].idx = i =>
                (log[e].updated <=>
                    \E field \in MappedFields :
                        Row(user.pk)[field] # MappedAt(i)[field])

AtNonDict ==
    \/ pc = "sync_users" /\ i <= Len(ldap_users) /\ ~ldap_users[i].isdict
    \/ pc = "sync_groups" /\ i <= Len(ldap_groups) /\ ~ldap_groups[i].isdict

C7_SkipChangesNothing ==
    AtNonDict =>
        /\ i' = i + 1
        /\ UNCHANGED <<pc, exc, Groups, Users, user, created, updated, cbi,
                       ldap_usernames, local_only, log>>

C7_SkippedIsLocalOnly ==
    RemovalDone =>
        \A k \in 1..Len(ldap_users) :
            ~ldap_users[k].isdict =>
                \A u \in Users :
                    (u[USERNAME_FIELD] = ldap_users[k].cname
                     /\ ~ConfirmedBySweep(u.pk)) =>
                        \A cb \in 1..Len(settings.REMOVED_USER_CALLBACKS) :
                            RemovedCalls(u.pk, cb) = 1

(* C7: an entry whose attributes are not mapping-shaped causes no lookup,  *)
(* create, update, save or callback and adds nothing to the confirmed set; *)
(* a stored user of that name is visited by removal detection, which runs  *)
(* to its end.                                                             *)
C7_NonDictSkipped == [][C7_SkipChangesNothing]_vars /\ []C7_SkippedIsLocalOnly

C7_Witness ==
    /\ RemovalDone
    /\ \E k \in 1..Len(ldap_users) :
          /\ ~ldap_users[k].isdict
          /\ \E u \in Users :
                /\ u[USERNAME_FIELD] = ldap_users[k].cname
                /\ RemovedCalls(u.pk, 1) = 1
          /\ \E m \in 1..Len(ldap_users) : m < k /\ ldap_users[m].isdict

\* the step that logs a uniqueness failure of `op`
UniquenessFailure(op) ==
    /\ Len(log') = Len(log) + 1
    /\ log'[Len(log')].op = op
    /\ log'[Len(log')].res = "IntegrityError"

\* the store as it was when the loop body took the entry it is at
EntryStartUsers ==
    IF pc = "user_callbacks" /\ created
    THEN {u \in Users : u.pk # user.pk}
    ELSE Users

(* C8 as stated: after a uniqueness failure of a user entry, at            *)
(* get_or_create or at save, the loop goes on and the later entries find   *)
(* the store as if the failing entry had not been in the batch.            *)
C8_Original ==
    [][(UniquenessFailure("get_or_create") \/ UniquenessFailure("save")) =>
          /\ pc' = "sync_users" /\ i' = i + 1 /\ exc' = ""
          /\ Users' = EntryStartUsers]_vars

(* C8 amended: after a uniqueness failure of a user entry the loop goes on *)
(* with the next entry; a failure at get_or_create leaves the store as if  *)
(* the entry had been absent, a failure at save leaves the store as the    *)
(* get_or_create of that entry left it (a created row stays).              *)
C8_FailureIsolated ==
    [][(UniquenessFailure("get_or_create") \/ UniquenessFailure("save")) =>
          /\ pc' = "sync_users" /\ i' = i + 1 /\ exc' = ""
          /\ Users' = Users
          /\ UniquenessFailure("get_or_create") => Users' = EntryStartUsers]_vars

C8_Witness ==
    \E e \in Events("save") :
        /\ log[e].res = "IntegrityError"
        /\ \E f \in Events("save") : log[f].idx > log[e].idx /\ log[f].res = "ok"

(* C9: a second call of sync_ldap_groups on the same result creates no     *)
(* group and leaves every group of the store as the first call left it.    *)
C9_SecondRunChangesNothing == [][run = 2 => Groups' = Groups]_vars

C9_Witness ==
    /\ run = 2 /\ GroupsSwept
    /\ \E e \in Events("group_get_or_create") : log[e].res = "created"
    /\ \E e \in Events("group_get_or_create") : log[e].res = "found"

(* C10: with removal callbacks configured, an entry whose save failed is   *)
(* in the confirmed set like one whose save succeeded, and its user gets   *)
(* no removal callback in the run.                                         *)
C10_FailedSaveNeverRemoved ==
    RemovalDone =>
        \A e \in Events("save") :
            log[e].res # "ok" =>
                /\ Username(ldap_users[log[e].idx].attrs) \in ldap_usernames
                /\ \A cb \in 1..Len(settings.REMOVED_USER_CALLBACKS) :
                      RemovedCalls(log[e].pk, cb) = 0

\* the moment line 125 computes django_usernames - ldap_usernames
AtDifference ==
    /\ pc = "sync_users" /\ i > Len(ldap_users)
    /\ settings.REMOVED_USER_CALLBACKS # <<>>

\* the lower-cased decoded name value of entry k
LoweredName(k) ==
    Lower(DirectoryValue(USER_ATTRIBUTES, ldap_users[k].attrs, USERNAME_FIELD))

GetOrCreateAt(k) == {e \in Events("get_or_create") : log[e].idx = k}
SaveAt(k) == {e \in Events("save") : log[e].idx = k}

(* C11 as stated: with removal callbacks configured, when the set          *)
(* difference is computed the confirmed set holds the lower-cased username *)
(* of every mapping-shaped entry of the result, whatever its get_or_create *)
(* or its save answered.                                                   *)
C11_Original ==
    AtDifference =>
        \A k \in 1..Len(ldap_users) :
            ldap_users[k].isdict => LoweredName(k) \in ldap_usernames

(* C11 amended: with removal callbacks configured, when the set difference *)
(* is computed the confirmed set is exactly the set of lower-cased         *)
(* usernames of the mapping-shaped entries whose get_or_create created or  *)
(* found a user, whether their save succeeded or failed.                   *)
C11_ConfirmedWhenResolved ==
    AtDifference =>
        ldap_usernames =
            {LoweredName(k) : k \in {m \in 1..Len(ldap_users) :
                /\ ldap_users[m].isdict
                /\ \E e \in GetOrCreateAt(m) : log[e].res \in {"created", "found"}}}

C11_Witness ==
    /\ AtDifference
    /\ \E k \in 1..Len(ldap_users) :
          /\ \E e \in SaveAt(k) : log[e].res = "IntegrityError"
          /\ LoweredName(k) \in ldap_usernames
    /\ \E k \in 1..Len(ldap_users) :
          /\ \E e \in GetOrCreateAt(k) : log[e].res \in {"IntegrityError", "DataError"}
          /\ LoweredName(k) \notin ldap_usernames

(* C12: a DataError raised by the save of a user is caught like an         *)
(* IntegrityError: no exception leaves the loop and the loop goes on with  *)
(* the next entry.                                                         *)
C12_SaveDataErrorCaught ==
    (Len(log) > 0 /\ LastEvent.op = "save" /\ LastEvent.res = "DataError") =>
        /\ exc = ""
        /\ pc = "sync_users"
        /\ i = LastEvent.idx + 1

\* entry k holds a configured attribute whose first value is not UTF-8
Undecodable(k) ==
    ldap_users[k].isdict /\ DecodeFails(USER_ATTRIBUTES, ldap_users[k].attrs)

(* C13: an entry with a configured attribute whose first value is not      *)
(* UTF-8 is mapped as if the attribute were absent: no UnicodeDecodeError  *)
(* leaves the loop, and once the loop has passed the entry its             *)
(* get_or_create has been made, under the name mapped with the empty       *)
(* string for that field.                                                  *)
C13_DecodeFailureLikeAbsent ==
    \A k \in 1..Len(ldap_users) :
        Undecodable(k) =>
            /\ exc # "UnicodeDecodeError"
            /\ (pc = "sync_users" /\ i > k) =>
                  \E e \in GetOrCreateAt(k) : log[e].key = LoweredName(k)

\* get_or_create of entry k created or found a user
Resolved(k) == \E e \in GetOrCreateAt(k) : log[e].res \in {"created", "found"}

\* the loop body is no longer working on entry k
BodyOver(k) == ~(pc = "user_callbacks" /\ i = k)

CallbackAt(k, cb) ==
    {e \in Events("user_callback") : log[e].idx = k /\ log[e].cb = cb}

NCallbacks == Len(settings.USER_CALLBACKS)

IsGetOrCreate(f, k) ==
    f \in DOMAIN log /\ log[f].op = "get_or_create" /\ log[f].idx = k

IsCallback(f, k, cb) ==
    /\ f \in DOMAIN log
    /\ log[f].op = "user_callback" /\ log[f].idx = k /\ log[f].cb = cb

IsSave(f, k) == f \in DOMAIN log /\ log[f].op = "save" /\ log[f].idx = k

\* the calls made for an entry sit in the log right after its get_or_create
\* (which compared the fields): callback 1, callback 2, ..., then the save
C14_InOrder ==
    \A f \in DOMAIN log :
        /\ log[f].op = "user_callback" =>
              /\ log[f].cb \in 1..NCallbacks
              /\ IsGetOrCreate(f - log[f].cb, log[f].idx)
              /\ log[f - log[f].cb].res \in {"created", "found"}
        /\ log[f].op = "save" =>
              /\ IsGetOrCreate(f - NCallbacks - 1, log[f].idx)
              /\ log[f - NCallbacks - 1].res \in {"created", "found"}
              /\ \A cb \in 1..NCallbacks :
                    IsCallback(f - NCallbacks - 1 + cb, log[f].idx, cb)

\* the first call for an entry directly follows the search, the save of an
\* earlier entry, or the failed get_or_create of an earlier entry
C14_OneEntryAtATime ==
    \A f \in DOMAIN log :
        log[f].op = "get_or_create" =>
            /\ f > 1
            /\ \/ log[f - 1].op = "search_users"
               \/ /\ log[f - 1].idx < log[f].idx
                  /\ \/ log[f - 1].op = "save"
                     \/ /\ log[f - 1].op = "get_or_create"
                        /\ log[f - 1].res \notin {"created", "found"}

(* C14 as stated: once the loop body is over for an entry whose            *)
(* get_or_create succeeded, every configured user-sync callback has been   *)
(* invoked exactly once for it, in list order, after the comparison and    *)
(* before the save, and no call for the next entry precedes that save.     *)
C14_Original ==
    /\ C14_InOrder
    /\ C14_OneEntryAtATime
    /\ \A k \in 1..Len(ldap_users) :
          (Resolved(k) /\ BodyOver(k)) =>
              \A cb \in 1..NCallbacks : Cardinality(CallbackAt(k, cb)) = 1

(* C14 amended: the callbacks of an entry whose get_or_create succeeded    *)
(* are invoked in list order, each at most once, after the comparison and  *)
(* before the save; every one of them is invoked exactly once and the save *)
(* is attempted unless a callback raised, in which case none after the     *)
(* raising one is invoked and the entry is not saved; no call for the next *)
(* entry precedes the save of the current one.                             *)
C14_CallbacksInOrderBeforeSave ==
    /\ C14_InOrder
    /\ C14_OneEntryAtATime
    /\ \A e \in DOMAIN log :
          (/\ log[e].op = "get_or_create"
           /\ log[e].res \in {"created", "found"}
           /\ BodyOver(log[e].idx)) =>
              LET k == log[e].idx
              IN  \/ /\ IsSave(e + NCallbacks + 1, k)
                     /\ \A cb \in 1..NCallbacks :
                           Cardinality(CallbackAt(k, cb)) = 1
                  \/ \E r \in 1..NCallbacks :
                        /\ IsCallback(e + r, k, r)
                        /\ log[e + r].res = "cb_raise"
                        /\ Len(log) = e + r
                        /\ \A cb \in 1..NCallbacks :
                              Cardinality(CallbackAt(k, cb)) =
                                  IF cb <= r THEN 1 ELSE 0

C14_Witness ==
    /\ pc = "sync_users" /\ i > Len(ldap_users) /\ Len(ldap_users) = 2
    /\ Len(settings.USER_CALLBACKS) = 2
    /\ Resolved(1) /\ Resolved(2)
    /\ \A k \in 1..2 : \A cb \in 1..2 : Cardinality(CallbackAt(k, cb)) = 1
    /\ \E e \in GetOrCreateAt(2) : log[e].updated

\* the call a step makes, if it makes one
NewOps == IF log' # log /\ Len(log') > 0 THEN {log'[Len(log')].op} ELSE {}

GroupOps == {"search_groups", "group_get_or_create"}
RemovalOps == {"values_list", "get", "removed_callback"}
UserOps == {"search_users", "get_or_create", "user_callback", "save"} \cup RemovalOps

C15_GroupGate ==
    ~settings.GROUP_FILTER =>
        /\ Groups' = Groups
        /\ pc' # "sync_groups"
        /\ NewOps \cap GroupOps = {}

C15_UserGate ==
    ~settings.USER_FILTER =>
        /\ Users' = Users /\ user' = user
        /\ pc' \notin {"sync_users", "user_callbacks", "removal", "removed_callbacks"}
        /\ NewOps \cap UserOps = {}

C15_RemovalGate ==
    settings.REMOVED_USER_CALLBACKS = <<>> =>
        /\ ldap_usernames' = {} /\ local_only' = {}
        /\ pc' \notin {"removal", "removed_callbacks"}
        /\ NewOps \cap RemovalOps = {}

(* C15: no step of a run without a group filter searches, looks up or      *)
(* creates a group; no step of a run without a user filter searches, looks *)
(* up, creates, updates or saves a user or invokes a callback of either    *)
(* chain; and in a run with an empty removal callback list the confirmed   *)
(* set stays empty and the stored usernames are never read for the         *)
(* difference.                                                             *)
C15_PhasesGated ==
    [][C15_GroupGate /\ C15_UserGate /\ C15_RemovalGate]_vars

C15_Witness ==
    /\ pc = "done"
    /\ ~settings.GROUP_FILTER /\ settings.USER_FILTER
    /\ settings.REMOVED_USER_CALLBACKS = <<>>
    /\ \E e \in Events("save") : log[e].res = "ok"
    /\ \E u \in Users : u[USERNAME_FIELD] \notin {Username(ldap_users[k].attrs) :
                                     k \in {m \in 1..Len(ldap_users) : ldap_users[m].isdict}}
    /\ ldap_usernames = {}

\* the last call was a get_or_create of sync_ldap_groups that found a group
\* whose stored name is not the mapped name
FoundDiffering ==
    /\ Len(log) > 0
    /\ LastEvent.op = "group_get_or_create" /\ LastEvent.res = "found"
    /\ \E g \in Groups : g.pk = LastEvent.pk /\ g[GROUPNAME_FIELD] # LastEvent.key

(* C16: no step of sync_ldap_groups changes or removes a group row that    *)
(* is in the store: every row is there afterwards with all its fields,     *)
(* the stored casing of its name included, also when the lookup found it   *)
(* under a mapped name that differs from the stored one.                   *)
C16_ExistingGroupsUntouched ==
    [][pc = "sync_groups" => \A g \in Groups : g \in Groups']_vars

C16_Witness ==
    /\ FoundDiffering
    /\ \E g \in Groups : g.pk = LastEvent.pk /\ g[GROUPNAME_FIELD] = S_N

\* lines 123-130 are running
InRemoval ==
    \/ AtDifference
    \/ pc \in {"removal", "removed_callbacks"}

Pks(rows) == {r.pk : r \in rows}

(* C17: no step of removal detection (the read of the stored usernames,    *)
(* the fetch of a local-only user, a removal callback that does nothing)   *)
(* changes the user rows or the group rows, and no step of any phase       *)
(* removes a group row or a user row from the store.                       *)
C17_RemovalLeavesStore ==
    [][/\ InRemoval => (Users' = Users /\ Groups' = Groups)
       /\ Pks(Users) \subseteq Pks(Users')
       /\ Pks(Groups) \subseteq Pks(Groups')]_vars

C17_Witness ==
    /\ RemovalDone
    /\ settings.REMOVED_USER_CALLBACKS = <<"cb_noop", "cb_noop">>
    /\ Cardinality(Events("get")) = 2
    /\ Cardinality(Events("removed_callback")) = 4
    /\ \E e \in Events("save") : log[e].res = "ok"

\* a callback that raised made the last call of the run, and the run is over
C18_RaiseIsLast ==
    \A e \in DOMAIN log :
        log[e].res = "cb_raise" =>
            /\ e = Len(log)
            /\ pc = "aborted"
            /\ exc = "CallbackError"

(* C18: when a user-sync callback or a removal callback raises, the run    *)
(* is over: the raising call is the last call made (no save of the current *)
(* user, no later callback, no later entry or local-only user, no read of  *)
(* the stored usernames if removal detection had not started) and no step  *)
(* follows it.                                                             *)
C18_CallbackFailureAborts == []C18_RaiseIsLast /\ [][pc # "aborted"]_vars

C18_Witness ==
    /\ pc = "aborted" /\ exc = "CallbackError"
    /\ settings.USER_CALLBACKS = <<"cb_raise", "cb_noop">>
    /\ settings.REMOVED_USER_CALLBACKS # <<>>
    /\ i < Len(ldap_users)
    /\ created /\ Stored(user.pk) /\ Row(user.pk) # user
    /\ Events("values_list") = {}

\* every mapping-shaped entry of the group result got one get_or_create
GroupsConsumed ==
    /\ GroupsSwept
    /\ \A k \in 1..Len(ldap_groups) :
          Cardinality({e \in Events("group_get_or_create") : log[e].idx = k}) =
              IF ldap_groups[k].isdict THEN 1 ELSE 0

\* every mapping-shaped entry of the user result got one get_or_create
UsersConsumed ==
    \A k \in 1..Len(ldap_users) :
        Cardinality(GetOrCreateAt(k)) = IF ldap_users[k].isdict THEN 1 ELSE 0

\* no local-only username is left, and none was fetched twice
LocalOnlyVisited ==
    /\ local_only = {}
    /\ \A e \in Events("get") : \A f \in Events("get") :
          log[e].key = log[f].key => e = f

(* C19: with callbacks that return, every run of handle ends by returning, *)
(* having given each mapping-shaped group entry and user entry one         *)
(* get_or_create and having fetched every local-only username once.        *)
C19_RunCompletes ==
    /\ settings.GROUP_FILTER => <>GroupsConsumed
    /\ <>(/\ pc = "done"
          /\ settings.USER_FILTER => UsersConsumed
          /\ (settings.USER_FILTER /\ settings.REMOVED_USER_CALLBACKS # <<>>)
                => LocalOnlyVisited)

(* C20: with removal callbacks configured, a user that get_or_create      *)
(* created or found in this run is never handed to a removal callback in   *)
(* this run, whatever the casing of the directory's name value.            *)
C20_SyncedUserNeverRemoved ==
    \A e \in Events("get_or_create") :
        log[e].res \in {"created", "found"} =>
            \A f \in Events("removed_callback") : log[f].pk # log[e].pk

====
